---- MODULE Spec2Model ----
(***************************************************************************)
(* Model of the snake game of src/src/game.rs (struct Game and its methods *)
(* new, update, spawn_food, ai_move) and of the direction handler of       *)
(* src/src/main.rs.  One game (one session) is modelled.                   *)
(*                                                                         *)
(* pc is the position of the single caller that holds the games lock:      *)
(*   "none"       Game::new has not been called yet                        *)
(*   "idle"       the last call has returned; the next call may start      *)
(*   "spawn_food" inside the loop of spawn_food (called from new or from   *)
(*                update); one step of the model is one random draw        *)
(*   "panicked"   the call unwound with a panic                            *)
(* lastOp names the last method that was entered.  last_move is the        *)
(* direction of the last step the snake made ("none" before the first),    *)
(* requested the direction the last call received when that call was       *)
(* update_direction ("none" otherwise).                                    *)
(*                                                                         *)
(* Three specifications share the variables:                               *)
(*   Spec / FairSpec  the calls on one game, one call at a time            *)
(*   SpecLeaderboard  submit_score on the leaderboard                      *)
(*   SpecHandlers     concurrent request handlers and the games lock       *)
(***************************************************************************)
EXTENDS Integers, Sequences, FiniteSets

VARIABLES snake, food, direction, score, game_over, width, height, pc, lastOp,
          last_move, requested, leaderboard, submitted, games_lock, req

fields == <<snake, food, direction, score, game_over, width, height>>
\* the game and the caller's position
gvars == <<snake, food, direction, score, game_over, width, height, pc, lastOp,
           last_move, requested>>
\* AppState.leaderboard and the scores submitted so far
lbvars == <<leaderboard, submitted>>
\* AppState.games' lock and the requests being handled
cvars == <<games_lock, req>>
vars == <<snake, food, direction, score, game_over, width, height, pc, lastOp,
          last_move, requested, leaderboard, submitted, games_lock, req>>

\* ---- bounds of the model ------------------------------------------------
MaxWidth == 3
MaxHeight == 3
\* largest board area (width * height) offered to new
MaxCells == 9
\* dimensions down to -MaxNegDim are offered to new
MaxNegDim == 1
\* fixed-point scale of the modelled f64 square root (three decimals)
SqrtScale == 1000
\* submit_score: the largest score submitted and the number of submissions
MaxSubmittedScore == 1
MaxSubmits == 11
\* the request handlers: how many run concurrently, and the board size that
\* new_game passes to Game::new (a square, 20 in the program)
NumRequests == 2
HandlerBoard == 2

\* ---- values -------------------------------------------------------------
Point(px, py) == [x |-> px, y |-> py]

Direction == {"Up", "Down", "Left", "Right"}

\* enumeration order of possible_moves in ai_move
possible_moves == <<"Up", "Down", "Left", "Right">>

\* f64::MAX, the initial min_distance: larger than every distance on a board
F64_MAX == 1000000000

\* Rust's i32 division truncates toward zero (TLA+'s \div floors)
TruncDiv(a, b) == IF a >= 0 THEN a \div b ELSE -((-a) \div b)

\* ---- pure helpers of update ----------------------------------------------
\* the match on self.direction that computes new_head
MoveHead(head, dir) ==
    CASE dir = "Up"    -> Point(head.x, head.y - 1)
      [] dir = "Down"  -> Point(head.x, head.y + 1)
      [] dir = "Left"  -> Point(head.x - 1, head.y)
      [] dir = "Right" -> Point(head.x + 1, head.y)

\* the wall test of update
HitsWallOffByOne(p, w, h) == p.x < 0 \/ p.x > w \/ p.y < 0 \/ p.y > h
HitsWall(p, w, h) == p.x < 0 \/ p.x >= w \/ p.y < 0 \/ p.y >= h

\* VecDeque::contains
Contains(s, p) == \E i \in 1..Len(s) : s[i] = p

\* the self-collision test of update: the body before the move, tail included
SelfHitNever(s, p) == FALSE
SelfHitIgnoringTail(s, p) == \E i \in 1..(Len(s) - 1) : s[i] = p
SelfHit(s, p) == Contains(s, p)

\* VecDeque::push_front and VecDeque::pop_back
PushFront(s, p) == <<p>> \o s
PopBackKeepsTail(s) == s
PopBack(s) == IF Len(s) = 0 THEN s ELSE SubSeq(s, 1, Len(s) - 1)

\* the early return of update and of ai_move when the game has ended
ReturnsIfOverNever(over) == FALSE
ReturnsIfOver(over) == over

\* the increment of score on eating
ScoreAfterEatingTwice(s) == s + 2
ScoreAfterEating(s) == s + 1

\* ---- spawn_food ------------------------------------------------------------
\* the acceptance test of the rejection loop
SpawnAcceptsAlways(s, p) == TRUE
SpawnAccepts(s, p) == ~Contains(s, p)

\* the values gen_range(0..n) can return
DrawRangeShort(n) == 0..(n - 2)
DrawRange(n) == 0..(n - 1)

\* one iteration of the loop: draw (fx, fy), accept it or draw again
SpawnFoodBody ==
    /\ pc = "spawn_food"
    /\ \E fx \in DrawRange(width), fy \in DrawRange(height) :
         IF SpawnAccepts(snake, Point(fx, fy))
         THEN /\ food' = Point(fx, fy)
              /\ pc' = "idle"
         ELSE UNCHANGED <<food, pc>>
    /\ UNCHANGED <<snake, direction, score, game_over, width, height, lastOp,
                   last_move, requested>>

SpawnFoodDraw == SpawnFoodBody /\ UNCHANGED <<lbvars, cvars>>

\* ---- Game::new -------------------------------------------------------------
Center(w, h) == Point(TruncDiv(w, 2), TruncDiv(h, 2))

\* gen_range(0..n) panics on an empty range
EmptyRange(n) == n <= 0

\* Game::new(w, h) up to its call of spawn_food
NewBody(w, h) ==
    /\ pc = "none"
    /\ width' = w
    /\ height' = h
    /\ snake' = <<Center(w, h)>>
    /\ pc' = IF EmptyRange(w) \/ EmptyRange(h) THEN "panicked" ELSE "spawn_food"
    /\ food' = Point(0, 0)
    /\ direction' = "Right"
    /\ score' = 0
    /\ game_over' = FALSE
    /\ lastOp' = "new"
    /\ UNCHANGED <<last_move, requested>>

New ==
    /\ \E w \in (-MaxNegDim)..MaxWidth, h \in (-MaxNegDim)..MaxHeight :
         /\ w * h <= MaxCells
         /\ NewBody(w, h)
    /\ UNCHANGED <<lbvars, cvars>>

\* ---- Game::update ----------------------------------------------------------
\* update() on a game whose direction field holds dir (the field itself when
\* update is called alone, the choice of ai_move in the ai-move handler)
UpdateBody(dir) ==
    /\ direction' = dir
    /\ IF ReturnsIfOver(game_over)
       THEN UNCHANGED <<snake, food, score, game_over, width, height, pc, last_move>>
       ELSE LET new_head == MoveHead(Head(snake), dir) IN
            IF HitsWall(new_head, width, height)
            THEN /\ game_over' = TRUE
                 /\ UNCHANGED <<snake, food, score, width, height, pc, last_move>>
            ELSE IF SelfHit(snake, new_head)
            THEN /\ game_over' = TRUE
                 /\ UNCHANGED <<snake, food, score, width, height, pc, last_move>>
            ELSE IF new_head.x = food.x /\ new_head.y = food.y
            THEN /\ snake' = PushFront(snake, new_head)
                 /\ score' = ScoreAfterEating(score)
                 /\ pc' = "spawn_food"
                 /\ last_move' = dir
                 /\ UNCHANGED <<food, game_over, width, height>>
            ELSE /\ snake' = PopBack(PushFront(snake, new_head))
                 /\ last_move' = dir
                 /\ UNCHANGED <<food, score, game_over, width, height, pc>>

Update ==
    /\ pc = "idle"
    /\ lastOp' = "update"
    /\ requested' = "none"
    /\ UpdateBody(direction)
    /\ UNCHANGED <<lbvars, cvars>>

\* ---- update_direction (main.rs) -------------------------------------------
\* game.direction = direction.into_inner(): the request's value, unvalidated
NoReversal(cur, d) ==
    IF <<cur, d>> \in {<<"Up", "Down">>, <<"Down", "Up">>, <<"Left", "Right">>, <<"Right", "Left">>}
    THEN cur ELSE d
AcceptedDirection(cur, d) == d

SetDirectionBody(d) ==
    /\ pc = "idle"
    /\ direction' = AcceptedDirection(direction, d)
    /\ requested' = d
    /\ lastOp' = "update_direction"
    /\ UNCHANGED <<snake, food, score, game_over, width, height, pc, last_move>>

SetDirection ==
    /\ \E d \in Direction : SetDirectionBody(d)
    /\ UNCHANGED <<lbvars, cvars>>

\* ---- Game::ai_move ---------------------------------------------------------
\* f64 sqrt of a non-negative integer, as a fixed-point number with scale
\* SqrtScale: the largest r with r*r <= n*SqrtScale^2, found by bisection
RECURSIVE SqrtSearch(_, _, _)
SqrtSearch(m, lo, hi) ==
    IF lo >= hi THEN lo
    ELSE LET mid == (lo + hi + 1) \div 2 IN
         IF mid * mid <= m THEN SqrtSearch(m, mid, hi) ELSE SqrtSearch(m, lo, mid - 1)

Sqrt(n) == SqrtSearch(n * SqrtScale * SqrtScale, 0, (n + 1) * SqrtScale)

\* i32::pow(2)
Pow2(a) == a * a

\* the Euclidean distance from a candidate head to the food
Distance(p, f) == Sqrt(Pow2(p.x - f.x) + Pow2(p.y - f.y))

\* the validity test of a candidate: in bounds and not on the snake
ValidMoveBoundsOnly(p, s, w, h) ==
    p.x >= 0 /\ p.x < w /\ p.y >= 0 /\ p.y < h
ValidMove(p, s, w, h) ==
    p.x >= 0 /\ p.x < w /\ p.y >= 0 /\ p.y < h /\ ~Contains(s, p)

\* the comparison that replaces the best move
CloserOrEqual(distance, min_distance) == distance <= min_distance
Closer(distance, min_distance) == distance < min_distance

\* the for loop over possible_moves, from index i with the running
\* best_move ("None" for Option::None) and min_distance
RECURSIVE AiScan(_, _, _, _, _, _, _)
AiScan(i, best_move, min_distance, s, f, w, h) ==
    IF i > Len(possible_moves) THEN best_move
    ELSE LET dir == possible_moves[i]
             point == MoveHead(Head(s), dir)
         IN IF ValidMove(point, s, w, h) /\ Closer(Distance(point, f), min_distance)
            THEN AiScan(i + 1, dir, Distance(point, f), s, f, w, h)
            ELSE AiScan(i + 1, best_move, min_distance, s, f, w, h)

BestMove(s, f, w, h) == AiScan(1, "None", F64_MAX, s, f, w, h)

\* the direction field after ai_move
AiChoice(over, dir, s, f, w, h) ==
    IF ReturnsIfOver(over) THEN dir
    ELSE LET best_move == BestMove(s, f, w, h) IN
         IF best_move = "None" THEN dir ELSE best_move

AiMoveBody ==
    /\ pc = "idle"
    /\ lastOp' = "ai_move"
    /\ requested' = "none"
    /\ direction' = AiChoice(game_over, direction, snake, food, width, height)
    /\ UNCHANGED <<snake, food, score, game_over, width, height, pc, last_move>>

AiMove == AiMoveBody /\ UNCHANGED <<lbvars, cvars>>

\* ---- the ai_move handler (main.rs): game.ai_move(); game.update() -----------
AiMoveHandler ==
    /\ pc = "idle"
    /\ lastOp' = "ai_move_handler"
    /\ requested' = "none"
    /\ UpdateBody(AiChoice(game_over, direction, snake, food, width, height))
    /\ UNCHANGED <<lbvars, cvars>>

\* ---- submit_score (main.rs) ---------------------------------------------------
\* the names a Score entry can carry
Names == {"ann", "bob"}

\* the leaderboard keeps the top 10
LeaderboardCap == 10

\* b.score.cmp(&a.score): e goes after every entry whose score is not smaller
\* (sort_by is stable, so entries of equal score keep their order)
RECURSIVE InsertByScore(_, _)
InsertByScore(e, sorted) ==
    IF sorted = <<>> THEN <<e>>
    ELSE IF Head(sorted).score >= e.score
         THEN <<Head(sorted)>> \o InsertByScore(e, Tail(sorted))
         ELSE <<e>> \o sorted

\* leaderboard.sort_by(|a, b| b.score.cmp(&a.score))
RECURSIVE StableSortDesc(_)
StableSortDesc(s) ==
    IF s = <<>> THEN <<>>
    ELSE InsertByScore(s[Len(s)], StableSortDesc(SubSeq(s, 1, Len(s) - 1)))

NoSort(s) == s
SortByScoreDesc(s) == StableSortDesc(s)

\* if leaderboard.len() > 10 { leaderboard.truncate(10) }
TruncateNever(s) == s
Truncate(s) == IF Len(s) > LeaderboardCap THEN SubSeq(s, 1, LeaderboardCap) ELSE s

SubmitScore ==
    /\ \E n \in Names, v \in 0..MaxSubmittedScore :
         /\ leaderboard' =
              Truncate(SortByScoreDesc(Append(leaderboard, [name |-> n, score |-> v])))
         /\ submitted' = [submitted EXCEPT ![v] = @ + 1]
    /\ UNCHANGED <<gvars, cvars>>

\* ---- the request handlers and the games lock (main.rs) -----------------------
\* games_lock is the request that holds data.games' mutex, 0 when it is free.
\* req[r].at is the position of request r in its handler:
\*   "start"       not yet at data.games.lock()
\*   "locked"      the lock is taken, the handler's body has not run
\*   "ai_selected" in the ai_move handler between game.ai_move() and game.update()
\*   "body_done"   the body's last call is made (its spawn_food loop may still run)
\* req[r].kind is its route, req[r].chosen the direction game.ai_move() left.
Kinds == {"new_game", "get_game_state", "update_direction", "update_game", "ai_move"}

StartOfRequest == [kind |-> "none", at |-> "start", chosen |-> "none"]

\* Mutex::lock returns only when no other guard is alive
LockFreeAlways(holder) == TRUE
LockFree(holder) == holder = 0

\* let mut games = data.games.lock().unwrap()
HLock(r) ==
    /\ req[r].at = "start"
    /\ LockFree(games_lock)
    /\ games_lock' = r
    /\ \E k \in Kinds :
         /\ (k = "new_game") <=> (pc = "none")
         /\ req' = [req EXCEPT ![r] = [kind |-> k, at |-> "locked", chosen |-> "none"]]
    /\ UNCHANGED <<gvars, lbvars>>

\* new_game: games.insert(session_id, Game::new(..))
HNewGame(r) ==
    /\ req[r].at = "locked" /\ req[r].kind = "new_game"
    /\ NewBody(HandlerBoard, HandlerBoard)
    /\ req' = [req EXCEPT ![r].at = "body_done"]
    /\ UNCHANGED <<lbvars, games_lock>>

\* get_game_state: reads the game
HGetGameState(r) ==
    /\ req[r].at = "locked" /\ req[r].kind = "get_game_state"
    /\ pc = "idle"
    /\ req' = [req EXCEPT ![r].at = "body_done"]
    /\ UNCHANGED <<gvars, lbvars, games_lock>>

\* update_direction: game.direction = direction.into_inner()
HUpdateDirection(r) ==
    /\ req[r].at = "locked" /\ req[r].kind = "update_direction"
    /\ \E d \in Direction : SetDirectionBody(d)
    /\ req' = [req EXCEPT ![r].at = "body_done"]
    /\ UNCHANGED <<lbvars, games_lock>>

\* update_game: game.update()
HUpdateGame(r) ==
    /\ req[r].at = "locked" /\ req[r].kind = "update_game"
    /\ pc = "idle"
    /\ lastOp' = "update"
    /\ requested' = "none"
    /\ UpdateBody(direction)
    /\ req' = [req EXCEPT ![r].at = "body_done"]
    /\ UNCHANGED <<lbvars, games_lock>>

\* ai_move: game.ai_move()
HAiSelect(r) ==
    /\ req[r].at = "locked" /\ req[r].kind = "ai_move"
    /\ AiMoveBody
    /\ req' = [req EXCEPT ![r].at = "ai_selected", ![r].chosen = direction']
    /\ UNCHANGED <<lbvars, games_lock>>

\* ai_move: game.update()
HAiTick(r) ==
    /\ req[r].at = "ai_selected"
    /\ pc = "idle"
    /\ lastOp' = "ai_move_handler"
    /\ requested' = "none"
    /\ UpdateBody(direction)
    /\ req' = [req EXCEPT ![r].at = "body_done"]
    /\ UNCHANGED <<lbvars, games_lock>>

\* the spawn_food loop of the call the handler made last
HSpawnFood(r) ==
    /\ req[r].at = "body_done"
    /\ SpawnFoodBody
    /\ UNCHANGED <<lbvars, cvars>>

\* the handler returns: the guard is dropped
HUnlock(r) ==
    /\ req[r].at = "body_done"
    /\ pc = "idle"
    /\ games_lock' = 0
    /\ req' = [req EXCEPT ![r] = StartOfRequest]
    /\ UNCHANGED <<gvars, lbvars>>

\* ---- the state machine ----------------------------------------------------
Init ==
    /\ snake = <<>>
    /\ food = Point(0, 0)
    /\ direction = "Right"
    /\ score = 0
    /\ game_over = FALSE
    /\ width = 0
    /\ height = 0
    /\ pc = "none"
    /\ lastOp = "none"
    /\ last_move = "none"
    /\ requested = "none"
    /\ leaderboard = <<>>
    /\ submitted = [v \in 0..MaxSubmittedScore |-> 0]
    /\ games_lock = 0
    /\ req = [r \in 1..NumRequests |-> StartOfRequest]

Next ==
    \/ New
    \/ SpawnFoodDraw
    \/ Update
    \/ SetDirection
    \/ AiMove
    \/ AiMoveHandler

Spec == Init /\ [][Next]_vars

\* the random draws of spawn_food are fair: a draw that the loop can accept is
\* eventually made
FairSpec == Spec /\ WF_vars(SpawnFoodDraw)

RECURSIVE SumTo(_, _)
SumTo(f, k) == IF k < 0 THEN 0 ELSE f[k] + SumTo(f, k - 1)

\* the number of scores submitted so far
NumSubmitted == SumTo(submitted, MaxSubmittedScore)

NextLeaderboard == NumSubmitted < MaxSubmits /\ SubmitScore

SpecLeaderboard == Init /\ [][NextLeaderboard]_vars

NextHandlers ==
    \E r \in 1..NumRequests :
        \/ HLock(r)
        \/ HNewGame(r)
        \/ HGetGameState(r)
        \/ HUpdateDirection(r)
        \/ HUpdateGame(r)
        \/ HAiSelect(r)
        \/ HAiTick(r)
        \/ HSpawnFood(r)
        \/ HUnlock(r)

SpecHandlers == Init /\ [][NextHandlers]_vars

\* the game is played on: some call that changes the state keeps arriving
LiveSpec == Spec /\ WF_vars(SpawnFoodDraw) /\ WF_vars(Next)

TypeOK ==
    /\ pc \in {"none", "idle", "spawn_food", "panicked"}
    /\ lastOp \in {"none", "new", "update", "update_direction", "ai_move", "ai_move_handler"}
    /\ last_move \in Direction \cup {"none"}
    /\ requested \in Direction \cup {"none"}
    /\ direction \in Direction
    /\ game_over \in BOOLEAN
    /\ score \in Nat

\* ---- vocabulary of the properties ------------------------------------------
\* the cells of the board, [0,width) x [0,height)
InBoard(p) == p.x \in 0..(width - 1) /\ p.y \in 0..(height - 1)

\* the set of cells the snake occupies
Body == {snake[i] : i \in 1..Len(snake)}

\* a game exists: new has got past its field initialisation without panicking
Constructed == pc \in {"idle", "spawn_food"}

\* the neighbour of the head in direction d
DX(d) == IF d = "Left" THEN -1 ELSE IF d = "Right" THEN 1 ELSE 0
DY(d) == IF d = "Up" THEN -1 ELSE IF d = "Down" THEN 1 ELSE 0
Neighbour(d) == Point(snake[1].x + DX(d), snake[1].y + DY(d))
Ahead == Neighbour(direction)

\* a step that enters update (a step that changes nothing satisfies every
\* [A]_vars, so only effective calls are constrained by the action properties)
UpdateStep == pc = "idle" /\ lastOp' = "update"
AiMoveStep == pc = "idle" /\ lastOp' = "ai_move"

\* a direction whose neighbouring cell is in bounds and not on the snake
IsValidDir(d) == InBoard(Neighbour(d)) /\ Neighbour(d) \notin Body

\* squared Euclidean distance from the neighbour in direction d to the food
Dist2(d) == (Neighbour(d).x - food.x) * (Neighbour(d).x - food.x)
            + (Neighbour(d).y - food.y) * (Neighbour(d).y - food.y)

\* rank in the order Up, Down, Left, Right
Rank(d) == CASE d = "Up" -> 1 [] d = "Down" -> 2 [] d = "Left" -> 3 [] d = "Right" -> 4

\* ---- C1 ---------------------------------------------------------------------
\* C1: whenever a call has returned (new, update, ai_move or a direction
\* change), food lies inside [0,width) x [0,height) and is not on the snake.
C1_FoodFreeAndInBounds == pc = "idle" => (InBoard(food) /\ food \notin Body)

\* food has been placed again after the snake ate twice
C1_Witness ==
    pc = "idle" /\ lastOp = "update" /\ ~game_over /\ score >= 2 /\ Len(snake) >= 3

\* ---- C2 ---------------------------------------------------------------------
\* C2: while game_over is false the snake body is non-empty, its points are
\* pairwise distinct and every point lies within [0,width) x [0,height).
C2_BodyDistinctInBounds ==
    (Constructed /\ ~game_over) =>
        /\ Len(snake) >= 1
        /\ \A i, j \in 1..Len(snake) : i # j => snake[i] # snake[j]
        /\ \A i \in 1..Len(snake) : InBoard(snake[i])

\* an active snake of four cells after a tick
C2_Witness == pc = "idle" /\ lastOp = "update" /\ ~game_over /\ Len(snake) >= 4

\* ---- C3 ---------------------------------------------------------------------
\* C3: once game_over is true it stays true, and every later update or ai_move
\* call leaves snake, food, direction, score, game_over, width and height
\* unchanged.
C3_OverAbsorbing ==
    [][game_over =>
         (game_over' /\ (lastOp' \in {"update", "ai_move", "ai_move_handler"} => UNCHANGED fields))]_vars

\* ai_move was called on a finished game in which it would otherwise have
\* turned the snake
C3_Witness ==
    /\ game_over /\ lastOp = "ai_move"
    /\ \E d \in Direction : d # direction /\ IsValidDir(d) /\ ~IsValidDir(direction)

\* update was called on a finished game whose head could otherwise have moved
C3_WitnessUpdate ==
    game_over /\ lastOp = "update" /\ IsValidDir(direction)

\* ---- C4 ---------------------------------------------------------------------
\* C4: every update either leaves body length and score unchanged or increases
\* both by exactly 1; the increase happens exactly when the tick computes a new
\* head equal to the food cell; no step ever shortens the body.
C4_GrowthLaw ==
    [][/\ Len(snake') >= Len(snake)
       /\ UpdateStep =>
            /\ \/ Len(snake') = Len(snake) /\ score' = score
               \/ Len(snake') = Len(snake) + 1 /\ score' = score + 1
            /\ (Len(snake') = Len(snake) + 1) <=> (~game_over /\ Ahead = food)]_vars

\* the tick that has just eaten (spawn_food is still to place the next food)
C4_Witness == lastOp = "update" /\ pc = "spawn_food" /\ Len(snake) >= 3 /\ snake[1] = food

\* ---- C5 ---------------------------------------------------------------------
\* C5: when the game is active and the cell ahead of the head is outside the
\* board, update sets game_over and leaves snake, food, score and direction as
\* they were.
C5_WallCollision ==
    [][(UpdateStep /\ ~game_over /\ ~InBoard(Ahead)) =>
         (game_over' /\ UNCHANGED <<snake, food, score, direction, width, height>>)]_vars

\* a tick has ended the game with the head against the wall it faces
C5_Witness == lastOp = "update" /\ game_over /\ ~InBoard(Ahead) /\ Len(snake) >= 2

\* ---- C6 ---------------------------------------------------------------------
\* C6: when the game is active and the in-bounds cell ahead of the head is on
\* the body before the move (the tail cell included), update sets game_over and
\* leaves body, food and score unchanged.
C6_SelfCollision ==
    [][(UpdateStep /\ ~game_over /\ InBoard(Ahead) /\ Ahead \in Body) =>
         (game_over' /\ UNCHANGED <<snake, food, score>>)]_vars

\* a tick has ended the game with the head facing the current tail cell
C6_Witness ==
    lastOp = "update" /\ game_over /\ Len(snake) >= 4 /\ Ahead = snake[Len(snake)]

\* ---- C7 ---------------------------------------------------------------------
\* C7: in every state reached by calls on a constructed game the body is
\* strictly shorter than width*height (spawn_food is never entered with every
\* cell occupied).
C7_NeverFillsBoard ==
    (Constructed /\ lastOp # "new") => Len(snake) < width * height

\* ---- C8 ---------------------------------------------------------------------
\* C8: for width > 0 and height > 0, new returns (its spawn_food loop has a cell
\* it can accept) a game with a one-cell snake at (width/2, height/2),
\* direction Right, score 0, game_over false and food different from the centre.
C8_NewReturnsCenteredGame ==
    (lastOp = "new" /\ width > 0 /\ height > 0) =>
        /\ snake = <<Point(width \div 2, height \div 2)>>
        /\ direction = "Right" /\ score = 0 /\ ~game_over
        /\ \E cx \in 0..(width - 1), cy \in 0..(height - 1) : Point(cx, cy) \notin Body
        /\ pc = "idle" => (InBoard(food) /\ food # Point(width \div 2, height \div 2))

\* ---- C9 ---------------------------------------------------------------------
\* C9: new with a non-positive width or height ends with the error outcome
\* InvalidDimensions.
C9_InvalidDimensionsOutcome ==
    (lastOp = "new" /\ (width <= 0 \/ height <= 0)) => pc = "invalid_dimensions"

\* ---- C10 --------------------------------------------------------------------
\* C10: after ai_move on an active game with at least one valid neighbour of
\* the head, direction is a valid direction of minimal Euclidean distance to
\* food, and the earliest such direction in the order Up, Down, Left, Right.
C10_AiPicksNearestValid ==
    (pc = "idle" /\ lastOp = "ai_move" /\ ~game_over /\ \E d \in Direction : IsValidDir(d)) =>
        /\ IsValidDir(direction)
        /\ \A d \in Direction : IsValidDir(d) =>
             /\ Dist2(direction) <= Dist2(d)
             /\ Dist2(d) = Dist2(direction) => Rank(direction) <= Rank(d)

\* ai_move has chosen between two valid directions at the same minimal
\* distance, with a body segment blocking another neighbour
C10_Witness ==
    /\ pc = "idle" /\ lastOp = "ai_move" /\ ~game_over
    /\ \E d \in Direction : d # direction /\ IsValidDir(d) /\ Dist2(d) = Dist2(direction)
    /\ \E d \in Direction : Neighbour(d) \in Body

\* ---- more vocabulary ---------------------------------------------------------
NoValidDir == \A d \in Direction : ~IsValidDir(d)

Opposite(d) ==
    CASE d = "Up" -> "Down" [] d = "Down" -> "Up" [] d = "Left" -> "Right" [] d = "Right" -> "Left"

\* a step that enters the ai_move handler, and one that enters update_direction
HandlerStep == pc = "idle" /\ lastOp' = "ai_move_handler"
SetDirectionStep == pc = "idle" /\ lastOp' = "update_direction"

FreeCellExists ==
    \E cx \in 0..(width - 1), cy \in 0..(height - 1) : Point(cx, cy) \notin Body

\* ---- C11 --------------------------------------------------------------------
\* C11: ai_move leaves snake, food, score, game_over, width and height
\* unchanged in every state, and changes direction only when the game is active
\* and some neighbouring cell of the head is valid.
C11_AiMoveOnlySelects ==
    [][AiMoveStep =>
         /\ UNCHANGED <<snake, food, score, game_over, width, height>>
         /\ direction' # direction => (~game_over /\ ~NoValidDir)]_vars

\* ai_move was called on an active game whose head has no valid neighbour
C11_Witness == lastOp = "ai_move" /\ ~game_over /\ NoValidDir /\ Len(snake) >= 2

\* ---- C14 --------------------------------------------------------------------
\* C14: on an active game the ai_move handler (ai_move, then update) ends the
\* game exactly when no neighbouring cell of the head is valid; when one is
\* valid the head moves onto the selected valid cell and the game stays active;
\* when none is valid direction is left unchanged.
C14_AiThenTick ==
    [][(HandlerStep /\ ~game_over) =>
         /\ game_over' <=> NoValidDir
         /\ ~NoValidDir =>
              (IsValidDir(direction') /\ snake'[1] = Neighbour(direction') /\ ~game_over')
         /\ NoValidDir => (direction' = direction /\ snake' = snake)]_vars

\* the handler has ended a game whose snake had boxed its head in
C14_Witness ==
    lastOp = "ai_move_handler" /\ game_over /\ NoValidDir /\ Len(snake) >= 2

\* ---- C15 --------------------------------------------------------------------
\* C15 as stated: in any active state, after update_direction has set the
\* direction to the opposite of the snake's last move, the next update sets
\* game_over.
C15_ReversalAlwaysFatal ==
    [][(UpdateStep /\ ~game_over /\ lastOp = "update_direction"
          /\ last_move # "none" /\ direction = Opposite(last_move)) => game_over']_vars

\* C15 as amended: the same for a snake of at least two segments (the cell
\* behind the head is then the neck; a one-segment snake just moves back).
C15_ReversalFatalWithNeck ==
    [][(UpdateStep /\ ~game_over /\ lastOp = "update_direction" /\ Len(snake) >= 2
          /\ last_move # "none" /\ direction = Opposite(last_move)) => game_over']_vars

\* a tick has ended the game with the head turned back onto the neck
C15_Witness ==
    /\ lastOp = "update" /\ game_over /\ Len(snake) >= 2
    /\ last_move # "none" /\ direction = Opposite(last_move) /\ Ahead = snake[2]

\* ---- C16 --------------------------------------------------------------------
\* what update would do with the eat test placed before the self-collision test
EatFirstUpdate ==
    IF game_over THEN UNCHANGED <<fields, pc>>
    ELSE IF ~InBoard(Ahead)
    THEN game_over' /\ UNCHANGED <<snake, food, score, pc>>
    ELSE IF Ahead = food
    THEN /\ snake' = <<Ahead>> \o snake /\ score' = score + 1
         /\ pc' = "spawn_food" /\ UNCHANGED <<food, game_over>>
    ELSE IF Ahead \in Body
    THEN game_over' /\ UNCHANGED <<snake, food, score, pc>>
    ELSE /\ snake' = <<Ahead>> \o SubSeq(snake, 1, Len(snake) - 1)
         /\ UNCHANGED <<food, score, game_over, pc>>

C17_SpawnFoodTerminates ==
    /\ (pc = "spawn_food" /\ FreeCellExists) ~> (pc = "idle")
    /\ [][(pc = "spawn_food" /\ ~FreeCellExists) => pc' = "spawn_food"]_vars
    /\ [][(pc = "spawn_food" /\ pc' = "idle") =>
            /\ InBoard(food') /\ food' \notin Body
            /\ UNCHANGED <<snake, direction, score, game_over, width, height>>]_vars
    /\ [](pc = "spawn_food" =>
            \A cx \in 0..(width - 1), cy \in 0..(height - 1) :
               Point(cx, cy) \notin Body =>
                  ENABLED (SpawnFoodDraw /\ food' = Point(cx, cy) /\ pc' = "idle"))

\* spawn_food has returned with food on the last column and row of the board
\* while the snake has three segments
C17_Witness ==
    /\ pc = "idle" /\ lastOp = "update" /\ Len(snake) >= 3
    /\ food = Point(width - 1, height - 1)

\* ---- C18 --------------------------------------------------------------------
\* C18: update_direction sets direction to exactly the requested value and
\* leaves snake, food, score, game_over, width and height unchanged, in every
\* state (finished games and reversals included); a tick that follows it moves
\* in the requested direction.
C18_SetDirectionReplacesField ==
    [][/\ SetDirectionStep =>
            /\ direction' = requested'
            /\ UNCHANGED <<snake, food, score, game_over, width, height>>
       /\ (UpdateStep /\ lastOp = "update_direction" /\ ~game_over) =>
            IF IsValidDir(requested)
            THEN snake'[1] = Neighbour(requested) /\ ~game_over'
            ELSE game_over' /\ snake' = snake]_vars

\* update_direction has reversed the direction of a finished game
C18_Witness ==
    /\ lastOp = "update_direction" /\ game_over /\ Len(snake) >= 2
    /\ last_move # "none" /\ requested = Opposite(last_move) /\ direction = requested

\* ---- C19 --------------------------------------------------------------------
\* C19: in every state of a game, active or over, score = body length - 1;
\* score changes only in update (called alone or by the ai_move handler), by 1,
\* on a tick of an active game whose new head is the food cell.
C19_ScoreIsLengthMinusOne ==
    /\ [](pc # "none" => score = Len(snake) - 1)
    /\ [][score' # score =>
            /\ pc = "idle" /\ lastOp' \in {"update", "ai_move_handler"}
            /\ ~game_over /\ snake'[1] = food /\ score' = score + 1]_vars

\* a finished game with a score of at least 2
C19_Witness == pc = "idle" /\ game_over /\ score >= 2 /\ Len(snake) = score + 1

\* ---- C12 --------------------------------------------------------------------
Min(a, b) == IF a <= b THEN a ELSE b

\* the number of leaderboard entries with score v
OnBoard(v) == Cardinality({i \in 1..Len(leaderboard) : leaderboard[i].score = v})

\* the number of submitted scores greater than v
RECURSIVE SubmittedAbove(_)
SubmittedAbove(v) ==
    IF v >= MaxSubmittedScore THEN 0 ELSE submitted[v + 1] + SubmittedAbove(v + 1)

\* C12: after any sequence of submit_score calls the leaderboard has at most
\* 10 entries, in non-increasing order of score, and its scores are the
\* min(n, 10) largest of the n submitted scores (as a multiset).
C12_LeaderboardTopTen ==
    /\ Len(leaderboard) = Min(NumSubmitted, 10)
    /\ \A i \in 1..(Len(leaderboard) - 1) : leaderboard[i].score >= leaderboard[i + 1].score
    /\ \A v \in 0..MaxSubmittedScore :
         LET room == Min(NumSubmitted, 10) - SubmittedAbove(v) IN
         OnBoard(v) = IF room <= 0 THEN 0 ELSE Min(submitted[v], room)

\* an eleventh score has pushed a smaller one off a full leaderboard
C12_Witness ==
    /\ NumSubmitted > 10 /\ Len(leaderboard) = 10
    /\ leaderboard[1].score > leaderboard[10].score
    /\ \E v \in 0..MaxSubmittedScore : OnBoard(v) < submitted[v] /\ OnBoard(v + 1) > 0

\* ---- C13 --------------------------------------------------------------------
\* the requests that are inside a handler body (between lock and return)
InFlight == {r \in 1..NumRequests : req[r].at # "start"}

\* C13: at most one handler is inside its body at a time, and it holds the
\* games lock; between the ai_move handler's game.ai_move() and its
\* game.update() the direction stays the one ai_move left, and the tick moves
\* the head in that direction.
C13_HandlersSerialised ==
    /\ [](/\ Cardinality(InFlight) <= 1
          /\ \A r \in InFlight : games_lock = r
          /\ \A r \in 1..NumRequests :
               req[r].at = "ai_selected" => direction = req[r].chosen)
    /\ [][\A r \in 1..NumRequests :
            (req[r].at = "ai_selected" /\ req'[r].at = "body_done" /\ ~game_over) =>
               IF IsValidDir(req[r].chosen)
               THEN snake'[1] = Neighbour(req[r].chosen) /\ ~game_over'
               ELSE game_over' /\ snake' = snake]_vars

\* an ai_move handler, still holding the lock, has made its tick and moved the
\* head in the direction it selected
C13_Witness ==
    \E r \in 1..NumRequests :
       /\ req[r].kind = "ai_move" /\ req[r].at = "body_done"
       /\ lastOp = "ai_move_handler" /\ ~game_over
       /\ last_move = req[r].chosen /\ Len(snake) >= 2

====
